---- MODULE Spec2Model ----
(***************************************************************************)
(* Receipt processor: validator, points engine and in-memory receipt       *)
(* store, with the two HTTP handlers that drive them.                       *)
(*                                                                         *)
(* Go strings are modelled as sequences of one-character strings over an   *)
(* ASCII alphabet, so len() and range agree (one byte per rune).           *)
(* float64 values are modelled exactly: a sign, an integer significand of  *)
(* at most Precision bits and a binary exponent; every operation rounds to *)
(* nearest, ties to even, as IEEE 754 prescribes.                          *)
(***************************************************************************)
EXTENDS Integers, Sequences, FiniteSets, TLC

\* ------------------------------------------------------------------------
\* Characters and strings
\* ------------------------------------------------------------------------

DigitChars == <<"0", "1", "2", "3", "4", "5", "6", "7", "8", "9">>

Digit == {DigitChars[i] : i \in 1..10}

DigitVal(c) == (CHOOSE i \in 1..10 : DigitChars[i] = c) - 1

IsDigit(s, i) == i >= 1 /\ i <= Len(s) /\ s[i] \in Digit

AllDigits(s) == \A i \in 1..Len(s) : s[i] \in Digit

\* Decimal value of a string of digits (atoi on an all-digit string).
RECURSIVE Atoi(_)
Atoi(s) ==
    IF s = <<>> THEN 0
    ELSE 10 * Atoi(SubSeq(s, 1, Len(s) - 1)) + DigitVal(s[Len(s)])

\* ------------------------------------------------------------------------
\* float64 arithmetic
\* ------------------------------------------------------------------------
\* A float64 is [neg, m, e] with value (-1)^neg * m * 2^e, where m is a
\* natural number of at most Precision significant bits held as a
\* little-endian sequence of limbs in base 2^14.

\* Bits of the float64 significand (strconv.ParseFloat(_, 64)).
Precision == 53

LimbBits == 7 * 2

Base == 2 ^ LimbBits

RECURSIVE LimbsOf(_)
LimbsOf(n) == IF n = 0 THEN <<>> ELSE <<n % Base>> \o LimbsOf(n \div Base)

RECURSIVE LimbsVal(_)
LimbsVal(l) == IF l = <<>> THEN 0 ELSE Head(l) + Base * LimbsVal(Tail(l))

RECURSIVE Norm(_)
Norm(l) ==
    IF l = <<>> THEN <<>>
    ELSE IF l[Len(l)] = 0 THEN Norm(SubSeq(l, 1, Len(l) - 1))
    ELSE l

RECURSIVE SmallBitLen(_)
SmallBitLen(n) == IF n = 0 THEN 0 ELSE 1 + SmallBitLen(n \div 2)

BitLen(l) ==
    IF l = <<>> THEN 0 ELSE LimbBits * (Len(l) - 1) + SmallBitLen(l[Len(l)])

\* Bit j (counted from 0) of the number l.
BitAt(l, j) ==
    LET i == (j \div LimbBits) + 1
    IN  IF i > Len(l) THEN 0 ELSE (l[i] \div (2 ^ (j % LimbBits))) % 2

\* l mod 2^d # 0
LowNonzero(l, d) ==
    LET w == d \div LimbBits
        s == d % LimbBits
    IN  \/ \E i \in 1..w : i <= Len(l) /\ l[i] # 0
        \/ w + 1 <= Len(l) /\ l[w + 1] % (2 ^ s) # 0

\* floor(l / 2^d)
ShiftRight(l, d) ==
    LET w == d \div LimbBits
        s == d % LimbBits
        P == 2 ^ s
        H == 2 ^ (LimbBits - s)
    IN  IF w >= Len(l) THEN <<>>
        ELSE Norm([i \in 1..(Len(l) - w) |->
                     (l[i + w] \div P)
                     + (IF i + w + 1 <= Len(l) THEN (l[i + w + 1] % P) * H ELSE 0)])

RECURSIVE AddCarry(_, _)
AddCarry(l, c) ==
    IF c = 0 THEN l
    ELSE IF l = <<>> THEN <<c>>
    ELSE <<(Head(l) + c) % Base>> \o AddCarry(Tail(l), (Head(l) + c) \div Base)

RECURSIVE ColSum(_, _, _, _)
ColSum(a, b, k, i) ==
    IF i > Len(a) THEN 0
    ELSE (IF k - i + 1 >= 1 /\ k - i + 1 <= Len(b) THEN a[i] * b[k - i + 1] ELSE 0)
         + ColSum(a, b, k, i + 1)

\* Schoolbook product, column by column with carry.
RECURSIVE MulCols(_, _, _, _)
MulCols(a, b, k, carry) ==
    IF k > Len(a) + Len(b) - 1 THEN LimbsOf(carry)
    ELSE LET s == ColSum(a, b, k, 1) + carry
         IN  <<s % Base>> \o MulCols(a, b, k + 1, s \div Base)

LimbsMul(a, b) == IF a = <<>> \/ b = <<>> THEN <<>> ELSE Norm(MulCols(a, b, 1, 0))

\* Round an exact significand (sticky: nonzero digits lie beyond it) to
\* Precision bits, nearest, ties to even; shift is the number of low bits
\* dropped.
RoundLimbs(l, sticky) ==
    LET L == BitLen(l)
    IN  IF L <= Precision THEN [m |-> l, shift |-> 0]
        ELSE LET d     == L - Precision
                 kept  == ShiftRight(l, d)
                 half  == BitAt(l, d - 1) = 1
                 below == sticky \/ LowNonzero(l, d - 1)
                 up    == half /\ (below \/ BitAt(l, d) = 1)
             IN  [m |-> IF up THEN AddCarry(kept, 1) ELSE kept, shift |-> d]

\* The float64 nearest to (-1)^neg * l * 2^e.
FRound(neg, l, e, sticky) ==
    LET r == RoundLimbs(l, sticky)
    IN  [neg |-> neg, m |-> r.m, e |-> e + r.shift]

\* Long division r/d, one limb per step, until five significant limbs
\* (more than Precision+2 bits) are known or the division is exact.
RECURSIVE DivLimbs(_, _, _, _)
DivLimbs(r, d, acc, e) ==
    IF r = 0 \/ Len(acc) >= 5 THEN [m |-> acc, e |-> e, rem |-> r]
    ELSE LET q   == (r * Base) \div d
             nxt == IF acc = <<>> /\ q = 0 THEN <<>> ELSE <<q>> \o acc
         IN  DivLimbs((r * Base) % d, d, nxt, e - LimbBits)

\* The float64 nearest to the rational n/d (n >= 0, 0 < d < 2^17):
\* correctly rounded decimal-to-binary conversion.
FromRatio(neg, n, d) ==
    LET q == DivLimbs(n % d, d, LimbsOf(n \div d), 0)
    IN  FRound(neg, q.m, q.e, q.rem # 0)

\* IEEE 754 multiplication.
FMul(x, y) == FRound(x.neg # y.neg, LimbsMul(x.m, y.m), x.e + y.e, FALSE)

\* Integer part of |f| and whether a fraction was dropped.
IntPart(f) ==
    IF f.e >= 0 THEN [n |-> LimbsVal(f.m) * (2 ^ f.e), frac |-> FALSE]
    ELSE [n |-> LimbsVal(ShiftRight(f.m, -f.e)), frac |-> LowNonzero(f.m, -f.e)]

\* Go conversion int(f): truncation toward zero.
FloatToInt(f) == IF f.neg THEN -IntPart(f).n ELSE IntPart(f).n

\* ------------------------------------------------------------------------
\* strconv, regexp, strings, unicode and time helpers used by the program
\* ------------------------------------------------------------------------

Letter == {"A", "T", "a", "b", "c", "d", "e", "f"}

Space == {" ", "\t"}

Drop(s, k) == SubSeq(s, k + 1, Len(s))

Take(s, k) == SubSeq(s, 1, k)

RECURSIVE Pow10(_)
Pow10(k) == IF k = 0 THEN 1 ELSE 10 * Pow10(k - 1)

\* strconv.ParseFloat(s, 64) on plain decimal syntax: optional sign, digits
\* with an optional decimal point, at least one digit.  (Exponents, hex
\* floats, infinities and NaN need letters that no numeric field of the
\* modelled inputs contains.)
ParseFloat(s) ==
    LET signed == s # <<>> /\ s[1] \in {"-", "+"}
        neg    == s # <<>> /\ s[1] = "-"
        body   == IF signed THEN Tail(s) ELSE s
        dots   == {i \in 1..Len(body) : body[i] = "."}
        dot    == IF dots = {} THEN Len(body) + 1 ELSE CHOOSE i \in dots : TRUE
        ip     == Take(body, dot - 1)
        fp     == Drop(body, dot)
        ok     == /\ Cardinality(dots) <= 1
                  /\ AllDigits(ip) /\ AllDigits(fp)
                  /\ Len(ip) + Len(fp) > 0
    IN  IF ok THEN [err |-> FALSE,
                    val |-> FromRatio(neg, Atoi(ip \o fp), Pow10(Len(fp)))]
        ELSE [err |-> TRUE, val |-> FromRatio(FALSE, 0, 1)]

\* The float64 constants of the program text.
Float100 == FromRatio(FALSE, 100, 1)

Float0p2 == FromRatio(FALSE, 2, 10)

\* getnum of package time: one or two leading digits (exactly two if fixed).
GetNum(s, fixed) ==
    IF ~IsDigit(s, 1) THEN [err |-> TRUE, n |-> 0, rest |-> s]
    ELSE IF ~IsDigit(s, 2)
         THEN IF fixed THEN [err |-> TRUE, n |-> 0, rest |-> s]
              ELSE [err |-> FALSE, n |-> DigitVal(s[1]), rest |-> Drop(s, 1)]
    ELSE [err |-> FALSE, n |-> 10 * DigitVal(s[1]) + DigitVal(s[2]), rest |-> Drop(s, 2)]

\* A literal layout character must be next in the value.
SkipLit(s, c) ==
    IF s # <<>> /\ s[1] = c THEN [err |-> FALSE, rest |-> Tail(s)]
    ELSE [err |-> TRUE, rest |-> s]

IsLeap(year) == year % 4 = 0 /\ (year % 100 # 0 \/ year % 400 = 0)

DaysIn(month, year) ==
    IF month = 2 THEN (IF IsLeap(year) THEN 29 ELSE 28)
    ELSE IF month \in {4, 6, 9, 11} THEN 30 ELSE 31

\* time.Parse("2006-01-02", s)
ParseDate(s) ==
    LET bad   == [err |-> TRUE, year |-> 0, month |-> 0, day |-> 0]
        yOK   == Len(s) >= 4 /\ AllDigits(Take(s, 4))
        year  == Atoi(Take(s, 4))
        d1    == SkipLit(Drop(s, 4), "-")
        mon   == GetNum(d1.rest, TRUE)
        d2    == SkipLit(mon.rest, "-")
        day   == GetNum(d2.rest, TRUE)
    IN  IF ~yOK \/ d1.err \/ mon.err THEN bad
        ELSE IF mon.n <= 0 \/ 12 < mon.n THEN bad
        ELSE IF d2.err \/ day.err THEN bad
        ELSE IF day.rest # <<>> THEN bad
        ELSE IF day.n < 1 \/ day.n > DaysIn(mon.n, year) THEN bad
        ELSE [err |-> FALSE, year |-> year, month |-> mon.n, day |-> day.n]

\* time.Parse("15:04", s)
ParseTime(s) ==
    LET bad  == [err |-> TRUE, hour |-> 0, minute |-> 0]
        hr   == GetNum(s, FALSE)
        c    == SkipLit(hr.rest, ":")
        mn   == GetNum(c.rest, TRUE)
    IN  IF hr.err THEN bad
        ELSE IF hr.n < 0 \/ 24 <= hr.n THEN bad
        ELSE IF c.err \/ mn.err THEN bad
        ELSE IF mn.n < 0 \/ 60 <= mn.n THEN bad
        ELSE IF mn.rest # <<>> THEN bad
        ELSE [err |-> FALSE, hour |-> hr.n, minute |-> mn.n]

\* strings.TrimSpace
RECURSIVE TrimLeft(_)
TrimLeft(s) == IF s # <<>> /\ s[1] \in Space THEN TrimLeft(Tail(s)) ELSE s

RECURSIVE TrimRight(_)
TrimRight(s) ==
    IF s # <<>> /\ s[Len(s)] \in Space THEN TrimRight(Take(s, Len(s) - 1)) ELSE s

TrimSpace(s) == TrimRight(TrimLeft(s))

\* ------------------------------------------------------------------------
\* models: validation helpers
\* ------------------------------------------------------------------------

IsValidDateFormat(date) == ~ParseDate(date).err

IsValidTimeFormat(timeStr) == ~ParseTime(timeStr).err

IsValidCurrencyFormatSigned(amount) ==
    LET a == IF amount # <<>> /\ amount[1] = "-" THEN Tail(amount) ELSE amount
        n == Len(a)
    IN  /\ n >= 4
        /\ AllDigits(Take(a, n - 3))
        /\ a[n - 2] = "."
        /\ a[n - 1] \in Digit
        /\ a[n] \in Digit

\* regexp ^\d+\.\d{2}$
IsValidCurrencyFormat(amount) ==
    LET n == Len(amount)
    IN  /\ n >= 4
        /\ AllDigits(Take(amount, n - 3))
        /\ amount[n - 2] = "."
        /\ amount[n - 1] \in Digit
        /\ amount[n] \in Digit

\* A ValidationError; Field is the sequence of the pieces the field name
\* is concatenated from.  The nil error has Code "nil".
NoError == [Code |-> "nil", Message |-> "", Field |-> <<>>, Value |-> <<>>]

NewMissingFieldError(field) ==
    [Code |-> "MISSING_FIELD", Message |-> "missing required field",
     Field |-> field, Value |-> <<>>]

NewInvalidFormatError(field, value) ==
    [Code |-> "INVALID_FORMAT", Message |-> "invalid format",
     Field |-> field, Value |-> value]

\* "items[" + string(rune(i)) + "]." + name: the index enters the field
\* name as the character with code point i.
ItemField(i, name) == <<"items[", i, "].", name>>

\* ------------------------------------------------------------------------
\* models: points rules
\* ------------------------------------------------------------------------

RECURSIVE countAlphanumeric(_)
countAlphanumeric(s) ==
    IF s = <<>> THEN 0
    ELSE (IF Head(s) \in Letter \/ Head(s) \in Digit THEN 1 ELSE 0)
         + countAlphanumeric(Tail(s))

CeilIntAlwaysUp(f) == IF f.neg THEN -IntPart(f).n ELSE IntPart(f).n + 1

\* int(math.Ceil(f))
CeilInt(f) ==
    LET p == IntPart(f)
    IN  IF f.neg THEN -p.n
        ELSE IF p.frac THEN p.n + 1 ELSE p.n

\* regexp ^\d+\.00 (a prefix match: no end anchor)
isRoundDollarAmount(total) ==
    \E k \in 1..Len(total) :
        /\ k + 3 <= Len(total)
        /\ AllDigits(Take(total, k))
        /\ total[k + 1] = "."
        /\ total[k + 2] = "0"
        /\ total[k + 3] = "0"

isMultipleOf25Cents(total) ==
    LET p == ParseFloat(total)
    IN  IF p.err THEN FALSE
        ELSE LET cents == FloatToInt(FMul(p.val, Float100))
             IN  cents % 25 = 0

isDayOdd(purchaseDate) ==
    LET t == ParseDate(purchaseDate)
    IN  IF t.err THEN FALSE ELSE t.day % 2 = 1

isTimeBetween2And4PMInclusive(purchaseTime) ==
    LET t == ParseTime(purchaseTime)
    IN  IF t.err THEN FALSE
        ELSE LET timeInMinutes == t.hour * 60 + t.minute
             IN  timeInMinutes >= 840 /\ timeInMinutes < 960

isTimeBetween2And4PM(purchaseTime) ==
    LET t == ParseTime(purchaseTime)
    IN  IF t.err THEN FALSE
        ELSE LET timeInMinutes == t.hour * 60 + t.minute
             IN  timeInMinutes > 840 /\ timeInMinutes < 960

\* One iteration of the Rule 5 loop: the points the item adds.
ItemPoints(item) ==
    LET trimmedDesc == TrimSpace(item.ShortDescription)
    IN  IF Len(trimmedDesc) % 3 = 0 /\ Len(trimmedDesc) > 0
        THEN LET p == ParseFloat(item.Price)
             IN  IF ~p.err THEN CeilInt(FMul(p.val, Float0p2)) ELSE 0
        ELSE 0

RECURSIVE ItemsPoints(_)
ItemsPoints(items) ==
    IF items = <<>> THEN 0 ELSE ItemPoints(Head(items)) + ItemsPoints(Tail(items))

Rule1(receipt) == countAlphanumeric(receipt.Retailer)

Rule2(receipt) == IF isRoundDollarAmount(receipt.Total) THEN 50 ELSE 0

Rule3(receipt) == IF isMultipleOf25Cents(receipt.Total) THEN 25 ELSE 0

Rule4(receipt) == (Len(receipt.Items) \div 2) * 5

Rule6(receipt) == IF isDayOdd(receipt.PurchaseDate) THEN 6 ELSE 0

Rule7(receipt) == IF isTimeBetween2And4PM(receipt.PurchaseTime) THEN 10 ELSE 0

CalculatePoints(receipt) ==
    Rule1(receipt) + Rule2(receipt) + Rule3(receipt) + Rule4(receipt)
    + ItemsPoints(receipt.Items) + Rule6(receipt) + Rule7(receipt)

\* ------------------------------------------------------------------------
\* handlers: validateReceipt
\* ------------------------------------------------------------------------

\* The item loop of validateReceipt from index i (0-based, as in the code).
RECURSIVE validateItems(_, _)
validateItems(items, i) ==
    IF i >= Len(items) THEN NoError
    ELSE LET item == items[i + 1]
         IN  IF item.ShortDescription = <<>>
             THEN NewMissingFieldError(ItemField(i, "shortDescription"))
             ELSE IF item.Price = <<>>
             THEN NewMissingFieldError(ItemField(i, "price"))
             ELSE IF ~IsValidCurrencyFormat(item.Price)
             THEN NewInvalidFormatError(ItemField(i, "price"), item.Price)
             ELSE validateItems(items, i + 1)

validateReceiptFormatsFirst(receipt) ==
    IF ~IsValidDateFormat(receipt.PurchaseDate)
    THEN NewInvalidFormatError(<<"purchaseDate">>, receipt.PurchaseDate)
    ELSE IF receipt.Retailer = <<>> THEN NewMissingFieldError(<<"retailer">>)
    ELSE IF receipt.PurchaseTime = <<>> THEN NewMissingFieldError(<<"purchaseTime">>)
    ELSE IF receipt.Total = <<>> THEN NewMissingFieldError(<<"total">>)
    ELSE IF Len(receipt.Items) = 0 THEN NewMissingFieldError(<<"items">>)
    ELSE IF ~IsValidTimeFormat(receipt.PurchaseTime)
    THEN NewInvalidFormatError(<<"purchaseTime">>, receipt.PurchaseTime)
    ELSE IF ~IsValidCurrencyFormat(receipt.Total)
    THEN NewInvalidFormatError(<<"total">>, receipt.Total)
    ELSE validateItems(receipt.Items, 0)

validateReceipt(receipt) ==
    IF receipt.Retailer = <<>> THEN NewMissingFieldError(<<"retailer">>)
    ELSE IF receipt.PurchaseDate = <<>> THEN NewMissingFieldError(<<"purchaseDate">>)
    ELSE IF receipt.PurchaseTime = <<>> THEN NewMissingFieldError(<<"purchaseTime">>)
    ELSE IF receipt.Total = <<>> THEN NewMissingFieldError(<<"total">>)
    ELSE IF Len(receipt.Items) = 0 THEN NewMissingFieldError(<<"items">>)
    ELSE IF ~IsValidDateFormat(receipt.PurchaseDate)
    THEN NewInvalidFormatError(<<"purchaseDate">>, receipt.PurchaseDate)
    ELSE IF ~IsValidTimeFormat(receipt.PurchaseTime)
    THEN NewInvalidFormatError(<<"purchaseTime">>, receipt.PurchaseTime)
    ELSE IF ~IsValidCurrencyFormat(receipt.Total)
    THEN NewInvalidFormatError(<<"total">>, receipt.Total)
    ELSE validateItems(receipt.Items, 0)

\* ------------------------------------------------------------------------
\* Bounds and request inputs
\* ------------------------------------------------------------------------

\* Receipts the store may hold before further valid receipts are withheld.
MaxReceipts == 2

\* Identifiers uuid.New() can draw from.
NumUUIDs == 2

\* Totals submitted to the points engine range over 0.00 .. MaxTotalDollars.99
MaxTotalDollars == 2

\* Item prices submitted to the points engine range over 0.00 .. MaxPriceDollars.99
MaxPriceDollars == 12

\* Longest item list submitted to the points engine.
MaxItems == 3

TwoDigits(n) == <<DigitChars[(n \div 10) + 1], DigitChars[(n % 10) + 1]>>

RECURSIVE DecStr(_)
DecStr(n) ==
    IF n < 10 THEN <<DigitChars[n + 1]>>
    ELSE DecStr(n \div 10) \o <<DigitChars[(n % 10) + 1]>>

Money(cents) == DecStr(cents \div 100) \o <<".">> \o TwoDigits(cents % 100)

DateStr(y, m, d) ==
    TwoDigits(y \div 100) \o TwoDigits(y % 100) \o <<"-">> \o TwoDigits(m)
    \o <<"-">> \o TwoDigits(d)

TimeStr(h, m) == TwoDigits(h) \o <<":">> \o TwoDigits(m)

Item(desc, price) == [ShortDescription |-> desc, Price |-> price]

NoId == "none"

UUIDs == {<<"uuid", i>> : i \in 1..NumUUIDs}

\* The zero value of models.Receipt.
ZeroReceipt ==
    [ID |-> NoId, Retailer |-> <<>>, PurchaseDate |-> <<>>, PurchaseTime |-> <<>>,
     Items |-> <<>>, Total |-> <<>>, Points |-> 0]

GoodItem == Item(<<"a", "b", "c">>, Money(649))

\* Receipts as json.Unmarshal delivers them to the handler: absent fields
\* hold their zero value, and a client may fill in id and points itself.
ServerReceipts ==
    { [ID |-> i, Retailer |-> r, PurchaseDate |-> d, PurchaseTime |-> t,
       Items |-> its, Total |-> tot, Points |-> p] :
        i   \in {NoId},
        p   \in {0},
        r   \in {<<>>, <<"A", "&", "b">>},
        d   \in {<<>>, DateStr(2022, 1, 1), DateStr(2022, 2, 30)},
        t   \in {<<>>, TimeStr(14, 1), TimeStr(24, 0)},
        tot \in {<<>>, Money(201), <<"-">> \o Money(500)},
        its \in {<<>>,
                 <<GoodItem>>,
                 <<Item(<<>>, <<>>)>>,
                 <<Item(<<" ">>, <<>>), GoodItem>>,
                 <<GoodItem, Item(<<"a">>, <<"1", ".", "5">>), Item(<<>>, Money(100))>>} }
    \cup
    { [ZeroReceipt EXCEPT !.ID = <<"uuid", 1>>, !.Points = 999,
         !.Retailer = <<"T", "a">>, !.PurchaseDate = DateStr(2022, 1, 2),
         !.PurchaseTime = TimeStr(13, 1), !.Items = <<GoodItem>>,
         !.Total = Money(125)],
      [ZeroReceipt EXCEPT !.ID = <<"uuid", 2>>, !.Points = 999,
         !.PurchaseDate = DateStr(2022, 1, 2),
         !.PurchaseTime = TimeStr(13, 1), !.Items = <<GoodItem>>,
         !.Total = Money(125)] }

ProcessBodies ==
    {[kind |-> "unreadable", receipt |-> ZeroReceipt],
     [kind |-> "malformed", receipt |-> ZeroReceipt]}
    \cup {[kind |-> "json", receipt |-> r] : r \in ServerReceipts}

RequestIds == UUIDs \cup {<<"bogus", 0>>}

\* ------------------------------------------------------------------------
\* State
\* ------------------------------------------------------------------------

VARIABLES
    store,          \* ReceiptStore.Receipts: id -> Receipt
    processedLog,   \* the "Receipt processed" log records: {[id, points]}
    req,            \* the request handled last
    resp,           \* the response written to it
    receipt,        \* CalculatePoints: its argument
    pc,             \* CalculatePoints: the rule about to be applied
    idx,            \* CalculatePoints: position of the Rule 5 loop
    points,         \* CalculatePoints: the local accumulator
    handler,        \* concurrent serving: each handler goroutine's position and locals
    overlaps,       \* concurrent serving: kinds of overlapping map accesses so far
    crashed         \* concurrent serving: the runtime has thrown a fatal error

vars == <<store, processedLog, req, resp, receipt, pc, idx, points,
          handler, overlaps, crashed>>

serverVars == <<store, processedLog, req, resp>>

engineVars == <<receipt, pc, idx, points>>

concVars == <<handler, overlaps, crashed>>

\* Handler goroutines net/http runs at the same time (one per connection).
NumHandlers == 2

Handlers == 1..NumHandlers

NoRequest == [kind |-> "none", body |-> [kind |-> "none", receipt |-> ZeroReceipt], id |-> NoId]

Response(status, id, pts, err, text) ==
    [status |-> status, id |-> id, points |-> pts, err |-> err, text |-> text]

NoResponse == Response(0, NoId, 0, NoError, "")

\* ------------------------------------------------------------------------
\* models: ReceiptStore
\* ------------------------------------------------------------------------

NewReceiptStore == << >>

AddReceiptDropsPoints(rs, rcpt, id) ==
    (id :> [rcpt EXCEPT !.ID = id, !.Points = 0]) @@ rs

AddReceiptFixedKey(rs, rcpt, id) ==
    (<<"uuid", 1>> :> [rcpt EXCEPT !.ID = id]) @@ rs

\* AddReceipt with the identifier uuid.New() produced.
AddReceipt(rs, rcpt, id) ==
    (id :> [rcpt EXCEPT !.ID = id]) @@ rs

GetReceiptAlwaysFound(rs, id) ==
    IF id \in DOMAIN rs THEN [receipt |-> rs[id], ok |-> TRUE]
    ELSE [receipt |-> ZeroReceipt, ok |-> TRUE]

GetReceipt(rs, id) ==
    IF id \in DOMAIN rs THEN [receipt |-> rs[id], ok |-> TRUE]
    ELSE [receipt |-> ZeroReceipt, ok |-> FALSE]

\* ------------------------------------------------------------------------
\* handlers
\* ------------------------------------------------------------------------

ProcessReceiptStoresFirst(body) ==
    /\ req' = [kind |-> "process", body |-> body, id |-> NoId]
    /\ UNCHANGED <<engineVars, concVars>>
    /\ IF body.kind # "json"
       THEN /\ resp' = Response(400, NoId, 0, NoError,
                                "Invalid JSON format. Please verify input.")
            /\ UNCHANGED <<store, processedLog>>
       ELSE /\ Cardinality(DOMAIN store) < MaxReceipts
            /\ LET pts    == CalculatePoints(body.receipt)
                   scored == [body.receipt EXCEPT !.Points = pts]
                   err    == validateReceipt(body.receipt)
               IN  \E id \in UUIDs \ DOMAIN store :
                      /\ store' = AddReceipt(store, scored, id)
                      /\ IF err # NoError
                         THEN /\ resp' = Response(400, NoId, 0, err, "")
                              /\ UNCHANGED processedLog
                         ELSE /\ processedLog' = processedLog
                                                  \cup {[id |-> id, points |-> pts]}
                              /\ resp' = Response(200, id, 0, NoError, "")

\* POST /receipts/process.  The handler runs to completion before the next
\* request is taken up.  A valid receipt is scored, stored under the
\* identifier uuid.New() returns, which is taken never to repeat an
\* identifier it returned before, and answered 200.  (The branch taken when
\* the response cannot be written follows the 200 header and changes neither
\* the status nor the store.)
ProcessReceipt(body) ==
    /\ req' = [kind |-> "process", body |-> body, id |-> NoId]
    /\ UNCHANGED <<engineVars, concVars>>
    /\ IF body.kind = "unreadable"
       THEN /\ resp' = Response(400, NoId, 0, NoError,
                                "Error reading request body. Please verify input.")
            /\ UNCHANGED <<store, processedLog>>
       ELSE IF body.kind = "malformed"
       THEN /\ resp' = Response(400, NoId, 0, NoError,
                                "Invalid JSON format. Please verify input.")
            /\ UNCHANGED <<store, processedLog>>
       ELSE IF validateReceipt(body.receipt) # NoError
       THEN /\ resp' = Response(400, NoId, 0, validateReceipt(body.receipt), "")
            /\ UNCHANGED <<store, processedLog>>
       ELSE /\ Cardinality(DOMAIN store) < MaxReceipts
            /\ LET pts    == CalculatePoints(body.receipt)
                   scored == [body.receipt EXCEPT !.Points = pts]
               IN  \E id \in UUIDs \ DOMAIN store :
                      /\ store' = AddReceipt(store, scored, id)
                      /\ processedLog' = processedLog \cup {[id |-> id, points |-> pts]}
                      /\ resp' = Response(200, id, 0, NoError, "")

\* GET /receipts/{id}/points
GetPoints(id) ==
    /\ req' = [kind |-> "points", body |-> NoRequest.body, id |-> id]
    /\ UNCHANGED <<store, processedLog>>
    /\ UNCHANGED <<engineVars, concVars>>
    /\ LET r == GetReceipt(store, id)
       IN  IF ~r.ok
           THEN resp' = Response(404, NoId, 0, NoError, "Receipt not found")
           ELSE resp' = Response(200, NoId, r.receipt.Points, NoError, "")

\* A goroutine with no request: pc "idle".
IdleHandler ==
    [pc |-> "idle", kind |-> "none", body |-> [kind |-> "none", receipt |-> ZeroReceipt],
     id |-> NoId, pts |-> 0, raced |-> FALSE]

Init ==
    /\ store = NewReceiptStore
    /\ processedLog = {}
    /\ req = NoRequest
    /\ resp = NoResponse
    /\ receipt = ZeroReceipt
    /\ pc = "idle"
    /\ idx = 0
    /\ points = 0
    /\ handler = [h \in Handlers |-> IdleHandler]
    /\ overlaps = {}
    /\ crashed = FALSE

Next ==
    \/ \E body \in ProcessBodies : ProcessReceipt(body)
    \/ \E id \in RequestIds : GetPoints(id)

Spec == Init /\ [][Next]_vars

\* ------------------------------------------------------------------------
\* The points engine, rule by rule
\* ------------------------------------------------------------------------

BaseReceipt ==
    [ID |-> NoId, Retailer |-> <<"T", "a">>, PurchaseDate |-> DateStr(2022, 1, 2),
     PurchaseTime |-> TimeStr(13, 1), Items |-> <<Item(<<"a", "b">>, Money(100))>>,
     Total |-> Money(110), Points |-> 0]

EngineRetailers ==
    {<<"T">>, <<"A", "&", "b">>, <<" ", "-", " ">>, <<"a", "1", " ", "b", "2">>}

EngineDates ==
    {DateStr(y, m, d) : y \in {1900, 2022, 2024}, m \in {0, 1, 2, 4, 12, 13},
                        d \in {0, 1, 2, 28, 29, 30, 31, 32}}

EngineTimes ==
    {TimeStr(h, m) : h \in 0..24, m \in 0..60}
    \cup {<<DigitChars[h + 1], ":">> \o TwoDigits(m) : h \in 0..9, m \in {0, 1, 59}}

EngineTotals == {Money(c) : c \in 0..(MaxTotalDollars * 100 + 99)}

EnginePrices == {Money(c) : c \in 0..(MaxPriceDollars * 100 + 99)}

EngineDescriptions ==
    {<<"a">>, <<"a", "b">>, <<"a", "b", "c">>, <<" ", "a", "b", "c", "\t">>,
     <<" ", "a", "b">>, <<"a", " ", "b">>, <<" ", " ", " ">>, <<"a", "b", " ", " ">>,
     <<"a", "b", "c", "d", "e", "f">>, <<" ", "a", "b", "c", "d", "e">>}

\* A few items from which the longer item lists are built.
ListItems ==
    {Item(<<"a", "b", "c">>, Money(649)), Item(<<"a", "b">>, Money(1000)),
     Item(<<" ", "a", " ", "b", " ">>, Money(1201)), Item(<<" ", " ", " ">>, Money(500))}

RECURSIVE SeqsUpTo(_, _)
SeqsUpTo(S, n) ==
    IF n = 0 THEN {<<>>}
    ELSE LET shorter == SeqsUpTo(S, n - 1)
         IN  shorter \cup {Append(q, x) : q \in shorter, x \in S}

EngineItemLists ==
    {<<Item(d, p)>> : d \in {<<"a", "b", "c">>}, p \in EnginePrices}
    \cup {<<Item(d, p)>> : d \in EngineDescriptions,
                           p \in {Money(0), Money(1), Money(649), Money(1000), Money(1200)}}
    \cup SeqsUpTo(ListItems, MaxItems)

\* The receipts handed to CalculatePoints: each varies one field of
\* BaseReceipt, and only those validateReceipt accepts are scored
\* (ProcessReceipt returns before scoring otherwise).
EngineInputs ==
    {r \in {[BaseReceipt EXCEPT !.Retailer = x] : x \in EngineRetailers}
           \cup {[BaseReceipt EXCEPT !.PurchaseDate = x] : x \in EngineDates}
           \cup {[BaseReceipt EXCEPT !.PurchaseTime = x] : x \in EngineTimes}
           \cup {[BaseReceipt EXCEPT !.Total = x] : x \in EngineTotals}
           \cup {[BaseReceipt EXCEPT !.Items = x] : x \in EngineItemLists} :
        validateReceipt(r) = NoError}

EngineInit ==
    /\ store = NewReceiptStore
    /\ processedLog = {}
    /\ req = NoRequest
    /\ resp = NoResponse
    /\ receipt \in EngineInputs
    /\ pc = "rule1"
    /\ idx = 0
    /\ points = 0
    /\ handler = [h \in Handlers |-> IdleHandler]
    /\ overlaps = {}
    /\ crashed = FALSE

StepRule1 ==
    /\ pc = "rule1"
    /\ points' = points + Rule1(receipt)
    /\ pc' = "rule2"
    /\ UNCHANGED <<receipt, idx>>
    /\ UNCHANGED <<serverVars, concVars>>

StepRule2 ==
    /\ pc = "rule2"
    /\ points' = points + Rule2(receipt)
    /\ pc' = "rule3"
    /\ UNCHANGED <<receipt, idx>>
    /\ UNCHANGED <<serverVars, concVars>>

StepRule3 ==
    /\ pc = "rule3"
    /\ points' = points + Rule3(receipt)
    /\ pc' = "rule4"
    /\ UNCHANGED <<receipt, idx>>
    /\ UNCHANGED <<serverVars, concVars>>

StepRule4 ==
    /\ pc = "rule4"
    /\ points' = points + Rule4(receipt)
    /\ pc' = IF Len(receipt.Items) = 0 THEN "rule6" ELSE "rule5"
    /\ UNCHANGED <<receipt, idx>>
    /\ UNCHANGED <<serverVars, concVars>>

\* One iteration of the loop over receipt.Items.
StepRule5 ==
    /\ pc = "rule5"
    /\ points' = points + ItemPoints(receipt.Items[idx + 1])
    /\ idx' = idx + 1
    /\ pc' = IF idx + 1 = Len(receipt.Items) THEN "rule6" ELSE "rule5"
    /\ UNCHANGED receipt
    /\ UNCHANGED <<serverVars, concVars>>

StepRule6 ==
    /\ pc = "rule6"
    /\ points' = points + Rule6(receipt)
    /\ pc' = "rule7"
    /\ UNCHANGED <<receipt, idx>>
    /\ UNCHANGED <<serverVars, concVars>>

StepRule7 ==
    /\ pc = "rule7"
    /\ points' = points + Rule7(receipt)
    /\ pc' = "return"
    /\ UNCHANGED <<receipt, idx>>
    /\ UNCHANGED <<serverVars, concVars>>

EngineNext ==
    \/ StepRule1
    \/ StepRule2
    \/ StepRule3
    \/ StepRule4
    \/ StepRule5
    \/ StepRule6
    \/ StepRule7

SpecEngine == EngineInit /\ [][EngineNext]_vars

\* ------------------------------------------------------------------------
\* Properties of the handlers and the store
\* ------------------------------------------------------------------------

\* Identifiers that successful process requests have returned so far.
Issued == {e.id : e \in processedLog}

IsProcess(r) == r.kind = "process" /\ r.body.kind = "json"

\* C1: every valid receipt is answered 200 with an id, and a points request
\* for that id made right after the process request answers 200 with the
\* points CalculatePoints gave the receipt.
C1_RoundTrip ==
    [][/\ (IsProcess(req') /\ validateReceipt(req'.body.receipt) = NoError)
            => (resp'.status = 200 /\ resp'.id \in UUIDs)
       /\ (IsProcess(req) /\ resp.status = 200
             /\ req'.kind = "points" /\ req'.id = resp.id)
            => (resp'.status = 200
                /\ resp'.points = CalculatePoints(req.body.receipt))]_vars

C1_Witness ==
    /\ req.kind = "points"
    /\ req.id \in Issued
    /\ resp.status = 200
    /\ resp.points > 0

\* C2: a points request for an id that no successful process request has
\* returned answers 404 "Receipt not found", whatever was processed before.
C2_UnknownIdNotFound ==
    (req.kind = "points" /\ req.id \notin Issued)
        => (resp.status = 404 /\ resp.text = "Receipt not found")

C2_Witness ==
    /\ req.kind = "points"
    /\ req.id \in UUIDs \ Issued
    /\ Issued # {}
    /\ resp.status = 404

\* C3: ids are unique and stored entries are permanent: each returned id
\* maps to the receipt and points stored with it, a process request never
\* returns an id already in the store, and no step changes or removes an
\* entry.
C3_IdsUniqueEntriesPermanent ==
    [][/\ \A id \in DOMAIN store : id \in DOMAIN store' /\ store'[id] = store[id]
       /\ (IsProcess(req') /\ resp'.status = 200)
            => (resp'.id \notin DOMAIN store /\ resp'.id \notin Issued)
       /\ \A e \in processedLog' :
            /\ e.id \in DOMAIN store'
            /\ store'[e.id].ID = e.id
            /\ store'[e.id].Points = e.points
       /\ Cardinality(processedLog') = Cardinality(DOMAIN store')]_vars

C3_Witness ==
    /\ Cardinality(DOMAIN store) >= 2
    /\ \E a, b \in DOMAIN store : store[a].Points # store[b].Points

\* The validator's checks in the documented order, each with the error it
\* reports: the five emptiness checks, the three format checks, then three
\* checks per item.
ItemChecks(items, i) ==
    <<[fails |-> items[i + 1].ShortDescription = <<>>,
       err   |-> NewMissingFieldError(ItemField(i, "shortDescription"))],
      [fails |-> items[i + 1].Price = <<>>,
       err   |-> NewMissingFieldError(ItemField(i, "price"))],
      [fails |-> ~IsValidCurrencyFormat(items[i + 1].Price),
       err   |-> NewInvalidFormatError(ItemField(i, "price"), items[i + 1].Price)]>>

RECURSIVE AllItemChecks(_, _)
AllItemChecks(items, i) ==
    IF i >= Len(items) THEN <<>>
    ELSE ItemChecks(items, i) \o AllItemChecks(items, i + 1)

OrderedChecks(r) ==
    <<[fails |-> r.Retailer = <<>>, err |-> NewMissingFieldError(<<"retailer">>)],
      [fails |-> r.PurchaseDate = <<>>, err |-> NewMissingFieldError(<<"purchaseDate">>)],
      [fails |-> r.PurchaseTime = <<>>, err |-> NewMissingFieldError(<<"purchaseTime">>)],
      [fails |-> r.Total = <<>>, err |-> NewMissingFieldError(<<"total">>)],
      [fails |-> r.Items = <<>>, err |-> NewMissingFieldError(<<"items">>)],
      [fails |-> ~IsValidDateFormat(r.PurchaseDate),
       err   |-> NewInvalidFormatError(<<"purchaseDate">>, r.PurchaseDate)],
      [fails |-> ~IsValidTimeFormat(r.PurchaseTime),
       err   |-> NewInvalidFormatError(<<"purchaseTime">>, r.PurchaseTime)],
      [fails |-> ~IsValidCurrencyFormat(r.Total),
       err   |-> NewInvalidFormatError(<<"total">>, r.Total)]>>
    \o AllItemChecks(r.Items, 0)

Failing(r) == {i \in 1..Len(OrderedChecks(r)) : OrderedChecks(r)[i].fails}

FirstFailing(r) == CHOOSE i \in Failing(r) : \A j \in Failing(r) : i <= j

\* C4: a process request whose receipt fails some check answers 400 with
\* exactly the error of the first failing check in the documented order.
C4_FirstFailureWins ==
    (IsProcess(req) /\ Failing(req.body.receipt) # {})
        => /\ resp.status = 400
           /\ resp.err = OrderedChecks(req.body.receipt)[FirstFailing(req.body.receipt)].err

C4_Witness ==
    /\ IsProcess(req)
    /\ Cardinality(Failing(req.body.receipt)) >= 2
    /\ FirstFailing(req.body.receipt) > 8
    /\ resp.status = 400
    /\ resp.err.Code = "INVALID_FORMAT"

NegativeAmount(total) ==
    total # <<>> /\ total[1] = "-" /\ IsValidCurrencyFormat(Tail(total))

NegativeTotalOnly(r) ==
    /\ NegativeAmount(r.Total)
    /\ Failing([r EXCEPT !.Total = Tail(r.Total)]) = {}

\* C5 as stated: a receipt whose total is negative and whose other fields
\* are valid passes validation and is accepted.
C5_NegativeTotalAccepted ==
    (IsProcess(req) /\ NegativeTotalOnly(req.body.receipt)) => resp.status = 200

\* C5 amended: such a receipt is rejected: the sign does not match the
\* currency pattern, so the request answers 400 with InvalidFormat(total)
\* and nothing is stored for it.
C5_NegativeTotalRejected ==
    (IsProcess(req) /\ NegativeTotalOnly(req.body.receipt))
        => /\ resp.status = 400
           /\ resp.err = NewInvalidFormatError(<<"total">>, req.body.receipt.Total)
           /\ \A id \in DOMAIN store : store[id].Total # req.body.receipt.Total

C5_Witness ==
    /\ IsProcess(req)
    /\ NegativeTotalOnly(req.body.receipt)
    /\ resp.status = 400

\* ------------------------------------------------------------------------
\* Properties of the points engine
\* ------------------------------------------------------------------------
\* The rules as the documentation states them, in exact integer arithmetic
\* on the digits of the validated strings.

\* Amount of a validated currency string in integer cents.
ExactCents(amount) ==
    100 * Atoi(Take(amount, Len(amount) - 3)) + Atoi(Drop(amount, Len(amount) - 2))

FractionDigits(amount) == Drop(amount, Len(amount) - 2)

DocR1(r) ==
    Cardinality({i \in 1..Len(r.Retailer) : r.Retailer[i] \in Letter \cup Digit})

DocR2(r) == IF FractionDigits(r.Total) = <<"0", "0">> THEN 50 ELSE 0

DocR3(r) == IF ExactCents(r.Total) % 25 = 0 THEN 25 ELSE 0

DocR4(r) == 5 * (Len(r.Items) \div 2)

\* Length of the description between its first and last non-blank character.
TrimmedLength(desc) ==
    LET solid == {i \in 1..Len(desc) : desc[i] \notin Space}
    IN  IF solid = {} THEN 0
        ELSE (CHOOSE i \in solid : \A j \in solid : j <= i)
             - (CHOOSE i \in solid : \A j \in solid : i <= j) + 1

\* ceil(price * 0.2) = ceil(cents / 500)
DocR5(item) ==
    IF TrimmedLength(item.ShortDescription) > 0
       /\ TrimmedLength(item.ShortDescription) % 3 = 0
    THEN (ExactCents(item.Price) + 499) \div 500
    ELSE 0

RECURSIVE SumOver(_, _)
SumOver(S, items) ==
    IF S = {} THEN 0
    ELSE LET i == CHOOSE j \in S : TRUE
         IN  DocR5(items[i]) + SumOver(S \ {i}, items)

DocR5Sum(r) == SumOver(DOMAIN r.Items, r.Items)

DocR6(r) == IF DigitVal(r.PurchaseDate[Len(r.PurchaseDate)]) % 2 = 1 THEN 6 ELSE 0

\* Hour and minute digits on either side of the colon.
HourOf(t) == Atoi(Take(t, Len(t) - 3))

MinuteOf(t) == Atoi(Drop(t, Len(t) - 2))

DocR7(r) ==
    IF (HourOf(r.PurchaseTime) = 14 /\ MinuteOf(r.PurchaseTime) >= 1)
       \/ HourOf(r.PurchaseTime) = 15
    THEN 10 ELSE 0

\* C6: the score returned for a valid receipt is non-negative and equals
\* R1+R2+R3+R4+sum(R5)+R6+R7 with the rules as documented.
C6_ScoreIsSumOfRules ==
    pc = "return"
        => /\ points >= 0
           /\ points = DocR1(receipt) + DocR2(receipt) + DocR3(receipt)
                       + DocR4(receipt) + DocR5Sum(receipt) + DocR6(receipt)
                       + DocR7(receipt)

\* C7: Rule 3 adds 25 exactly when the total in integer cents is divisible
\* by 25, and nothing otherwise.
C7_Rule3ExactMultiple ==
    [][(pc = "rule3" /\ pc' = "rule4") => points' - points = DocR3(receipt)]_vars

\* C8: after Rules 2 and 3 a total ending in 00 has earned 75, one ending
\* in 25, 50 or 75 has earned 25, and any other total nothing.
C8_Rules2And3Consistent ==
    pc = "rule4"
        => points - DocR1(receipt)
             = IF FractionDigits(receipt.Total) = <<"0", "0">> THEN 75
               ELSE IF FractionDigits(receipt.Total)
                         \in {<<"2", "5">>, <<"5", "0">>, <<"7", "5">>} THEN 25
               ELSE 0

Permuted(items, f) == [i \in DOMAIN items |-> items[f[i]]]

\* C9: each iteration of Rule 5 adds ceil(price/5) when the trimmed
\* description has non-zero length divisible by 3 and 0 otherwise, and the
\* total for the items is the same for every order of the items.
C9_Rule5CeilingPerItem ==
    /\ [][(pc = "rule5") => points' - points = DocR5(receipt.Items[idx + 1])]_vars
    /\ [](pc = "rule6" =>
            \A f \in Permutations(DOMAIN receipt.Items) :
                points = Rule1(receipt) + Rule2(receipt) + Rule3(receipt)
                         + Rule4(receipt)
                         + ItemsPoints(Permuted(receipt.Items, f)))

C9_Witness ==
    /\ pc = "rule6"
    /\ receipt.Items = <<Item(<<"a", "b", "c">>, Money(1000))>>
    /\ points = Rule1(receipt) + Rule2(receipt) + Rule3(receipt) + Rule4(receipt) + 2

\* C10: Rule 7 adds 10 exactly for the times 14:01 .. 15:59 and nothing for
\* any other valid time, 14:00 and 16:00 included.
C10_Rule7ExclusiveWindow ==
    [][(pc = "rule7" /\ pc' = "return")
          => points' - points = DocR7(receipt)]_vars

C10_Witness ==
    /\ pc = "return"
    /\ receipt.PurchaseTime = TimeStr(15, 59)
    /\ points = CalculatePoints([receipt EXCEPT !.PurchaseTime = TimeStr(16, 0)]) + 10

\* ------------------------------------------------------------------------
\* Concurrent serving: handler goroutines sharing the store
\* ------------------------------------------------------------------------
\* net/http runs every request's handler in a goroutine of its own, and all
\* of them use the one ReceiptHandler.Store.  Each handler is cut where it
\* enters and leaves the map access of AddReceipt / GetReceipt; the rest of
\* a handler touches only its own locals.

ConcBodies ==
    {[kind |-> "json", receipt |-> BaseReceipt],
     [kind |-> "json", receipt |-> [BaseReceipt EXCEPT !.Retailer = <<>>]]}

\* The goroutine that takes the next request: goroutines are alike, so the
\* free one with the least number stands for any free one.
Free(h) ==
    /\ handler[h].pc = "idle"
    /\ \A o \in Handlers : handler[o].pc = "idle" => h <= o

\* Handlers inside the map, other than h.
WritersBut(h) == {o \in Handlers \ {h} : handler[o].pc = "writing"}

ReadersBut(h) == {o \in Handlers \ {h} : handler[o].pc = "reading"}

\* Identifiers uuid.New() has handed out.
UsedIds ==
    DOMAIN store \cup Issued
    \cup {handler[o].id : o \in {x \in Handlers : handler[x].pc \in {"add", "writing"}}}

ConcInit ==
    /\ store = NewReceiptStore
    /\ processedLog = {}
    /\ req = NoRequest
    /\ resp = NoResponse
    /\ receipt = ZeroReceipt
    /\ pc = "idle"
    /\ idx = 0
    /\ points = 0
    /\ handler = [h \in Handlers |-> IdleHandler]
    /\ overlaps = {}
    /\ crashed = FALSE

\* A GET /receipts/{id}/points starts in a free goroutine: GetPoints up to
\* the call of GetReceipt.
AcceptPoints(h, id) ==
    /\ ~crashed
    /\ Free(h)
    /\ handler' = [handler EXCEPT ![h] =
                     [IdleHandler EXCEPT !.pc = "get", !.kind = "points", !.id = id]]
    /\ UNCHANGED <<serverVars, engineVars, overlaps, crashed>>

\* A POST /receipts/process starts in a free goroutine: ProcessReceipt up to
\* the map write: read, parse, validate, score, and AddReceipt's uuid.New().
\* A rejected request is answered here.
ProcessPrepare(h, body) ==
    /\ ~crashed
    /\ Free(h)
    /\ UNCHANGED <<store, processedLog, engineVars, overlaps, crashed>>
    /\ IF body.kind # "json" \/ validateReceipt(body.receipt) # NoError
       THEN /\ req' = [kind |-> "process", body |-> body, id |-> NoId]
            /\ resp' = IF body.kind # "json"
                       THEN Response(400, NoId, 0, NoError,
                                     "Invalid JSON format. Please verify input.")
                       ELSE Response(400, NoId, 0, validateReceipt(body.receipt), "")
            /\ UNCHANGED handler
       ELSE /\ \E id \in UUIDs \ UsedIds :
                  handler' = [handler EXCEPT ![h] =
                                [IdleHandler EXCEPT !.pc = "add", !.kind = "process",
                                    !.body = body, !.id = id,
                                    !.pts = CalculatePoints(body.receipt)]]
            /\ UNCHANGED <<req, resp>>

AddBeginLocked(h) ==
    /\ ~crashed
    /\ handler[h].pc = "add"
    /\ WritersBut(h) = {} /\ ReadersBut(h) = {}
    /\ handler' = [handler EXCEPT ![h].pc = "writing"]
    /\ UNCHANGED <<serverVars, engineVars, overlaps, crashed>>

\* AddReceipt enters rs.Receipts[id] = receipt.  Nothing makes it wait for
\* a goroutine already inside the map; an access it overlaps is a data race.
AddBegin(h) ==
    /\ ~crashed
    /\ handler[h].pc = "add"
    /\ handler' = [o \in Handlers |->
                     IF o = h
                     THEN [handler[o] EXCEPT !.pc = "writing",
                              !.raced = WritersBut(h) \cup ReadersBut(h) # {}]
                     ELSE IF o \in WritersBut(h) \cup ReadersBut(h)
                     THEN [handler[o] EXCEPT !.raced = TRUE]
                     ELSE handler[o]]
    /\ overlaps' = overlaps
                     \cup (IF WritersBut(h) # {} THEN {"write-write"} ELSE {})
                     \cup (IF ReadersBut(h) # {} THEN {"read-write"} ELSE {})
    /\ UNCHANGED <<serverVars, engineVars, crashed>>

\* The map write completes and ProcessReceipt logs and answers 200.  A write
\* that raced may have been lost.
AddEnd(h) ==
    /\ ~crashed
    /\ handler[h].pc = "writing"
    /\ LET scored == [handler[h].body.receipt EXCEPT !.Points = handler[h].pts]
       IN  \E kept \in (IF handler[h].raced THEN BOOLEAN ELSE {TRUE}) :
              store' = IF kept THEN AddReceipt(store, scored, handler[h].id) ELSE store
    /\ processedLog' = processedLog \cup {[id |-> handler[h].id, points |-> handler[h].pts]}
    /\ req' = [kind |-> "process", body |-> handler[h].body, id |-> NoId]
    /\ resp' = Response(200, handler[h].id, 0, NoError, "")
    /\ handler' = [handler EXCEPT ![h] = IdleHandler]
    /\ UNCHANGED <<engineVars, overlaps, crashed>>

\* GetReceipt enters rs.Receipts[id]; it does not wait for a writer either.
GetBegin(h) ==
    /\ ~crashed
    /\ handler[h].pc = "get"
    /\ handler' = [o \in Handlers |->
                     IF o = h
                     THEN [handler[o] EXCEPT !.pc = "reading", !.raced = WritersBut(h) # {}]
                     ELSE IF o \in WritersBut(h)
                     THEN [handler[o] EXCEPT !.raced = TRUE]
                     ELSE handler[o]]
    /\ overlaps' = overlaps \cup (IF WritersBut(h) # {} THEN {"read-write"} ELSE {})
    /\ UNCHANGED <<serverVars, engineVars, crashed>>

\* The map read completes and GetPoints answers.  A read that raced may
\* have missed the entry.
GetEnd(h) ==
    /\ ~crashed
    /\ handler[h].pc = "reading"
    /\ \E seen \in (IF handler[h].raced THEN {store, NewReceiptStore} ELSE {store}) :
          LET r == GetReceipt(seen, handler[h].id)
          IN  resp' = IF ~r.ok
                      THEN Response(404, NoId, 0, NoError, "Receipt not found")
                      ELSE Response(200, NoId, r.receipt.Points, NoError, "")
    /\ req' = [kind |-> "points", body |-> NoRequest.body, id |-> handler[h].id]
    /\ handler' = [handler EXCEPT ![h] = IdleHandler]
    /\ UNCHANGED <<store, processedLog, engineVars, overlaps, crashed>>

\* The runtime notices a racing map access ("concurrent map writes",
\* "concurrent map read and map write") and ends the process.
Throw ==
    /\ ~crashed
    /\ \E h \in Handlers : handler[h].raced
    /\ crashed' = TRUE
    /\ UNCHANGED <<serverVars, engineVars, handler, overlaps>>

ConcNext ==
    \/ \E h \in Handlers, id \in UUIDs : AcceptPoints(h, id)
    \/ \E h \in Handlers, body \in ConcBodies : ProcessPrepare(h, body)
    \/ \E h \in Handlers : AddBegin(h)
    \/ \E h \in Handlers : AddEnd(h)
    \/ \E h \in Handlers : GetBegin(h)
    \/ \E h \in Handlers : GetEnd(h)
    \/ Throw

SpecConc == ConcInit /\ [][ConcNext]_vars

\* C11: the store has no mutual exclusion: a handler about to write the map
\* and a handler about to read it can always go ahead, whatever the other
\* handlers are doing, so writes overlap writes and reads overlap writes.
C11_NoMutualExclusion ==
    ~crashed =>
        \A h \in Handlers :
            /\ handler[h].pc = "add" => ENABLED AddBegin(h)
            /\ handler[h].pc = "get" => ENABLED GetBegin(h)

C11_Witness ==
    /\ \A h \in Handlers : handler[h].pc = "writing" /\ handler[h].raced
    /\ overlaps = {"write-write", "read-write"}

\* ------------------------------------------------------------------------
\* Frame of the store
\* ------------------------------------------------------------------------

\* C12: a successful process request adds exactly one entry, under the id it
\* returns, and leaves the others alone; a rejected process request and
\* every points request leave the store as it was; so the store holds as
\* many receipts as process requests have succeeded.
C12_StoreChangesOnlyOnSuccess ==
    [][/\ (req'.kind = "process" /\ resp'.status = 200)
            => /\ resp'.id \notin DOMAIN store
               /\ DOMAIN store' = DOMAIN store \cup {resp'.id}
               /\ \A id \in DOMAIN store : store'[id] = store[id]
               /\ Cardinality(processedLog') = Cardinality(processedLog) + 1
       /\ ~(req'.kind = "process" /\ resp'.status = 200)
            => /\ resp'.status \in {400, 404, 200}
               /\ store' = store
               /\ processedLog' = processedLog
       /\ Cardinality(DOMAIN store') = Cardinality(processedLog')]_vars

C12_Witness ==
    /\ req.kind = "process"
    /\ req.body.kind = "json"
    /\ resp.status = 400
    /\ Cardinality(DOMAIN store) = 1
    /\ Cardinality(processedLog) = 1

====
